---------------------------- MODULE Spec2Model ----------------------------
(***************************************************************************)
(* A model of the org picker (orgList.ts), the function-name validator,    *)
(* the source-diff response handler and ConfigUtil of salesforcedx-vscode. *)
(*                                                                         *)
(* Text is modelled as a sequence of characters (one-character strings);   *)
(* a localized message is one opaque token, and JavaScript's undefined and *)
(* null are the one-token texts Undef and Null.                            *)
(***************************************************************************)
EXTENDS Integers, Sequences, FiniteSets, TLC

(***************************************************************************)
(* Bounds of the model.                                                    *)
(***************************************************************************)
MaxOrgs == 2
MaxDay == 3
MaxEvents == 2
MaxHead == 2
MaxPad == 48
MaxChunks == 3

(***************************************************************************)
(* JavaScript values and string operations.                                *)
(***************************************************************************)
Undef == <<"undefined">>
Null == <<"null">>

\* JavaScript truthiness of a string-or-undefined value.
Truthy(v) == v # Undef /\ v # Null /\ v # <<>>

\* a || b
OrElse(a, b) == IF Truthy(a) THEN a ELSE b

\* nls.localize(key): the message of a key, an opaque text.
Localize(key) == <<key>>

\* Array.prototype.toString, as the template literal `${aliases}` applies it:
\* the elements joined by commas.
RECURSIVE JoinComma(_)
JoinComma(list) ==
    IF list = <<>> THEN <<>>
    ELSE IF Len(list) = 1 THEN Head(list)
    ELSE Head(list) \o <<",">> \o JoinComma(Tail(list))

\* Whether sep occurs in s at position i.
OccursAt(s, sep, i) ==
    /\ i + Len(sep) - 1 <= Len(s)
    /\ \A k \in 1..Len(sep) : s[i + k - 1] = sep[k]

\* String.prototype.split(sep, 1): the text before the first occurrence of
\* sep (the whole text when sep does not occur), as a one-element array.
SplitFirst(s, sep) ==
    LET hits == {i \in 1..Len(s) : OccursAt(s, sep, i)}
    IN  IF hits = {} THEN <<s>>
        ELSE LET first == CHOOSE i \in hits : \A j \in hits : i <= j
             IN  <<SubSeq(s, 1, first - 1)>>

Dash == <<" ", "-", " ">>
Plus == <<"$", "(", "p", "l", "u", "s", ")", " ">>
Plug == <<"$", "(", "p", "l", "u", "g", ")", " ">>
CrossMark == <<"U+274C">>

(***************************************************************************)
(* OrgList: the state of the org picker and of what it reads.              *)
(***************************************************************************)
VARIABLES
    ctxUsername,      \* workspaceContext.username
    ctxAlias,         \* workspaceContext.alias
    constructed,      \* whether the OrgList has been constructed
    statusBarText,    \* statusBarItem.text
    reported,         \* the org-change events delivered so far
    listing,          \* what AuthInfo.listAllAuthorizations() yields
    rootWorkspace,    \* hasRootWorkspace()
    devHubConfig,     \* OrgAuthInfo.getDefaultDevHubUsernameOrAlias(false)
    today,            \* new Date()
    op,               \* the last operation run
    ret,              \* what it returned
    shown,            \* the quick-pick lists shown by it
    selection,        \* what the quick-pick yielded
    executed          \* the editor commands executed by it

VARIABLES
    exitCode,         \* the exit code handed to handleDiffResponse
    stdOut,           \* the CLI output, as DiffResultParser reads it
    diffRootWorkspace,\* hasRootWorkspace(), as handleDiffResponse sees it
    defaultOrg,       \* OrgAuthInfo.getDefaultUsernameOrAlias(false)
    diffPc,           \* "idle" until handleDiffResponse has run
    parsed,           \* the DiffResultParsers constructed
    diffViews,        \* the vscode.diff commands executed
    channel,          \* the lines appended to the output channel
    channelShown,     \* the calls of channelService.showChannelOutput()
    notifications,    \* the error notifications shown
    telemetry,        \* the exceptions sent to telemetry
    escaped           \* whether handleDiffResponse rejected

VARIABLES
    localConfig,      \* the values of the local project config file
    localThrows,      \* whether reading the local config file throws
    globalConfig,     \* the values of the ConfigAggregator
    globalThrows,     \* whether creating the ConfigAggregator throws
    configCall,       \* the ConfigUtil call made
    configRet,        \* what it returned
    configTelemetry,  \* the exceptions it sent to telemetry
    localReads,       \* its reads of the local config file
    globalReads       \* its reads of the ConfigAggregator

VARIABLES
    nameValue,        \* the function name typed
    namePc,           \* "idle" until validateInput has run
    nameResult        \* what validateInput returned

VARIABLES
    execPc,           \* "idle", "running" or "exited": the CLI process
    stdOutText,       \* the variable stdOut of execute
    delivered,        \* the stdout chunks delivered so far
    deliveredAtExit,  \* how many were delivered when the process exited
    handled,          \* the calls of handleDiffResponse made by execute
    execLog           \* the steps of the exit subscriber, in order

VARIABLES
    sourceUri,        \* the argument of forceSourceDiff or superSourceDiff
    activeEditor,     \* vscode.window.activeTextEditor: {} or {document}
    contextUsername,  \* workspaceContext.username, as superSourceDiff reads it
    sourceCall,       \* the function called, "none" before
    commandlets       \* the commandlets run

VARIABLES
    functionInfo,     \* the fileName and language gathered
    welcomeText,      \* the welcomeText generateFunction gives
    functionPc,       \* where ForceFunctionCreateExecutor.run is
    functionLog,      \* what run has done, in order
    functionResult,   \* what run returned
    warnings          \* the warning notifications shown

execVars == <<execPc, stdOutText, delivered, deliveredAtExit, handled, execLog>>
sourceVars == <<sourceUri, activeEditor, contextUsername, sourceCall,
                commandlets>>
functionVars == <<functionInfo, welcomeText, functionPc, functionLog,
                  functionResult, warnings>>
commandVars == <<execVars, sourceVars, functionVars>>
orgVars == <<listing, rootWorkspace, devHubConfig, today, op, ret, shown,
             selection, executed>>
statusVars == <<ctxUsername, ctxAlias, constructed, statusBarText, reported>>
diffVars == <<exitCode, stdOut, diffRootWorkspace, defaultOrg, diffPc, parsed,
              diffViews, channel, channelShown, notifications, telemetry,
              escaped>>
configVars == <<localConfig, localThrows, globalConfig, globalThrows,
                configCall, configRet, configTelemetry, localReads,
                globalReads>>
nameVars == <<nameValue, namePc, nameResult>>
vars == <<orgVars, statusVars, diffVars, configVars, nameVars, commandVars>>


(***************************************************************************)
(* The status bar item.                                                    *)
(***************************************************************************)
Usernames == {<<"u", "1">>, <<"u", "2">>}
Aliases == {<<"a">>, <<"b">>}

\* The values workspaceContext.username and .alias, and the fields of an
\* OrgInfo event, can take.
OptUsernames == {Undef, <<>>} \cup Usernames
OptAliases == {Undef, <<>>} \cup Aliases
OrgInfos == [username : OptUsernames, alias : OptAliases]

\* A displayDefaultUsername that lacks the missing-default-org branch.
displayDefaultUsernameAlways(defaultUsernameOrAlias) ==
    Plug \o defaultUsernameOrAlias

\* displayDefaultUsername(defaultUsernameOrAlias): the new statusBarItem.text.
displayDefaultUsername(defaultUsernameOrAlias) ==
    IF Truthy(defaultUsernameOrAlias)
    THEN Plug \o defaultUsernameOrAlias
    ELSE Localize("missing_default_org")

StatusInit ==
    /\ ctxUsername \in OptUsernames
    /\ ctxAlias \in OptAliases
    /\ constructed = FALSE
    /\ statusBarText = Undef
    /\ reported = <<>>

StatusIdle ==
    /\ ctxUsername = Undef
    /\ ctxAlias = Undef
    /\ constructed = FALSE
    /\ statusBarText = Undef
    /\ reported = <<>>

\* new OrgList(): creates the status bar item, subscribes to org changes and
\* displays the workspace context's current org.
Construct ==
    /\ ~constructed
    /\ constructed' = TRUE
    /\ statusBarText' = displayDefaultUsername(OrElse(ctxAlias, ctxUsername))
    /\ reported' = <<[username |-> ctxUsername, alias |-> ctxAlias]>>
    /\ UNCHANGED <<ctxUsername, ctxAlias>>
    /\ UNCHANGED <<orgVars, diffVars, configVars, nameVars, commandVars>>

\* The workspace context changes org and fires onOrgChange(orgInfo); the
\* subscription of a constructed OrgList displays the org of the event.
OrgChange(orgInfo) ==
    /\ Len(reported) <= MaxEvents
    /\ ctxUsername' = orgInfo.username
    /\ ctxAlias' = orgInfo.alias
    /\ IF constructed
       THEN /\ statusBarText' =
                   displayDefaultUsername(OrElse(orgInfo.alias, orgInfo.username))
            /\ reported' = Append(reported, orgInfo)
       ELSE UNCHANGED <<statusBarText, reported>>
    /\ UNCHANGED constructed
    /\ UNCHANGED <<orgVars, diffVars, configVars, nameVars, commandVars>>

StatusNext ==
    \/ Construct
    \/ \E orgInfo \in OrgInfos : OrgChange(orgInfo)


(***************************************************************************)
(* The org picker: what it reads.                                          *)
(***************************************************************************)
HubA == <<"h", "1">>
HubB == <<"h", "2">>
HubAlias == <<"h">>
AdminUsername == <<"u", "0">>

\* The username of the i-th authorization: usernames are unique.
UsernameAt(i) == <<"u", <<"1", "2", "3", "4">>[i]>>

AliasLists == {<<>>, <<<<"a">>>>, <<<<"a">>, <<"b">>>>}

\* An expiration date is absent ({}) or a day ({d}).
NoDate == {}
Days == 1..MaxDay
ExpirationDates == {NoDate, {MaxDay - 1}}

\* The i-th authorization together with the AuthFields that
\* AuthInfo.create({username}).getFields() gives for it (AuthInfo.create is
\* taken to succeed for a username that was listed). Only a scratch org
\* (one with a devHubUsername) has an expiration date, and a user created in
\* a scratch org (one with a scratchAdminUsername) has neither.
OrgsAt(i) ==
    {o \in [username : {UsernameAt(i)},
            aliases : AliasLists,
            scratchAdminUsername : {Undef, AdminUsername},
            devHubUsername : {Undef, HubA, HubB},
            expirationDate : ExpirationDates] :
        /\ o.devHubUsername = Undef => o.expirationDate = NoDate
        /\ o.scratchAdminUsername # Undef => o.devHubUsername = Undef}

RECURSIVE OrgListsOfLen(_)
OrgListsOfLen(n) ==
    IF n = 0 THEN {<<>>}
    ELSE {Append(l, o) : l \in OrgListsOfLen(n - 1), o \in OrgsAt(n)}

OrgLists == UNION {OrgListsOfLen(n) : n \in 0..MaxOrgs}

\* AuthInfo.listAllAuthorizations(): rejected (ok = FALSE), or a list.
Listings == {[ok |-> FALSE, orgs |-> <<>>]} \cup
            {[ok |-> TRUE, orgs |-> l] : l \in OrgLists}

\* OrgAuthInfo.getUsername(usernameOrAlias): an alias resolves to its
\* username, a username to itself.
getUsername(usernameOrAlias) ==
    IF usernameOrAlias = HubAlias THEN HubA ELSE usernameOrAlias


(***************************************************************************)
(* The org picker: its operations.                                         *)
(***************************************************************************)
RetNull == [type |-> "null"]
RetList(l) == [type |-> "list", list |-> l]
RetCancel == [type |-> "CANCEL"]
RetContinue == [type |-> "CONTINUE"]

\* A getOrgAuthorizations that lacks the test for an empty list.
getOrgAuthorizationsAnyLength ==
    IF listing.ok THEN RetList(listing.orgs) ELSE RetNull

\* getOrgAuthorizations(): null when the listing is rejected or empty.
getOrgAuthorizations ==
    LET orgAuthorizations == IF listing.ok THEN RetList(listing.orgs)
                             ELSE RetNull
    IN  IF orgAuthorizations = RetNull \/ Len(listing.orgs) = 0
        THEN RetNull
        ELSE orgAuthorizations

\* getDefaultDevHubUsernameorAlias(): undefined without a root workspace.
getDefaultDevHubUsernameorAlias ==
    IF rootWorkspace THEN devHubConfig ELSE Undef

\* today >= new Date(authFields.expirationDate), false without a date.
isExpired(authFields) ==
    IF authFields.expirationDate # NoDate
    THEN \E d \in authFields.expirationDate : today >= d
    ELSE FALSE

\* The entry filterAuthInfo makes for a kept authorization.
authListItem(authInfo) ==
    LET aliases == authInfo.aliases
        item == IF Len(aliases) > 0
                THEN JoinComma(aliases) \o Dash \o authInfo.username
                ELSE authInfo.username
    IN  IF isExpired(authInfo)
        THEN item \o Dash \o Localize("org_expired") \o <<" ">> \o CrossMark
        ELSE item

\* A loop of filterAuthInfo that lacks the scratchAdminUsername test.
RECURSIVE filterLoopKeepingAdmins(_, _, _, _)
filterLoopKeepingAdmins(authInfoObjects, i, defaultDevHubUsername, authList) ==
    IF i > Len(authInfoObjects) THEN authList
    ELSE LET authInfo == authInfoObjects[i]
         IN  IF /\ Truthy(authInfo.devHubUsername)
                /\ authInfo.devHubUsername # defaultDevHubUsername
             THEN filterLoopKeepingAdmins(authInfoObjects, i + 1,
                                          defaultDevHubUsername, authList)
             ELSE filterLoopKeepingAdmins(authInfoObjects, i + 1,
                                          defaultDevHubUsername,
                                          Append(authList,
                                                 authListItem(authInfo)))

\* The loop of filterAuthInfo from the i-th authorization on.
RECURSIVE filterLoop(_, _, _, _)
filterLoop(authInfoObjects, i, defaultDevHubUsername, authList) ==
    IF i > Len(authInfoObjects) THEN authList
    ELSE LET authInfo == authInfoObjects[i]
         IN  IF Truthy(authInfo.scratchAdminUsername)
             THEN filterLoop(authInfoObjects, i + 1, defaultDevHubUsername,
                             authList)
             ELSE IF /\ Truthy(authInfo.devHubUsername)
                     /\ authInfo.devHubUsername # defaultDevHubUsername
             THEN filterLoop(authInfoObjects, i + 1, defaultDevHubUsername,
                             authList)
             ELSE filterLoop(authInfoObjects, i + 1, defaultDevHubUsername,
                             Append(authList, authListItem(authInfo)))

\* filterAuthInfo(authInfoObjects): the entries of the authorizations kept.
filterAuthInfo(authInfoObjects) ==
    LET defaultDevHubUsernameorAlias == getDefaultDevHubUsernameorAlias
        defaultDevHubUsername ==
            IF Truthy(defaultDevHubUsernameorAlias)
            THEN getUsername(defaultDevHubUsernameorAlias)
            ELSE Undef
    IN  filterLoop(authInfoObjects, 1, defaultDevHubUsername, <<>>)

\* updateOrgList(): null without authorizations, else the filtered entries.
updateOrgList ==
    LET orgAuthorizations == getOrgAuthorizations
    IN  IF orgAuthorizations = RetNull THEN RetNull
        ELSE RetList(filterAuthInfo(orgAuthorizations.list))

\* The five fixed entries of the quick-pick.
actionEntries ==
    << Plus \o Localize("force_auth_web_login_authorize_org_text"),
       Plus \o Localize("force_auth_web_login_authorize_dev_hub_text"),
       Plus \o Localize("force_org_create_default_scratch_org_text"),
       Plus \o Localize("force_auth_access_token_authorize_org_text"),
       Plus \o Localize("force_org_list_clean_text") >>

\* The list setDefaultOrg shows.
quickPickList ==
    LET authInfoList == updateOrgList
    IN  IF authInfoList # RetNull
        THEN actionEntries \o authInfoList.list
        ELSE actionEntries

\* A switch of setDefaultOrg that lacks the case of the last fixed entry.
commandForFourCases(sel) ==
    IF sel = Plus \o Localize("force_auth_web_login_authorize_org_text")
    THEN [command |-> "sfdx.force.auth.web.login", args |-> <<>>]
    ELSE IF sel = Plus \o Localize("force_auth_web_login_authorize_dev_hub_text")
    THEN [command |-> "sfdx.force.auth.dev.hub", args |-> <<>>]
    ELSE IF sel = Plus \o Localize("force_org_create_default_scratch_org_text")
    THEN [command |-> "sfdx.force.org.create", args |-> <<>>]
    ELSE IF sel = Plus \o Localize("force_auth_access_token_authorize_org_text")
    THEN [command |-> "sfdx.force.auth.accessToken", args |-> <<>>]
    ELSE [command |-> "sfdx.force.config.set",
          args |-> <<SplitFirst(sel, Dash)>>]

\* The switch of setDefaultOrg: the command executed for a selection.
commandFor(sel) ==
    IF sel = Plus \o Localize("force_auth_web_login_authorize_org_text")
    THEN [command |-> "sfdx.force.auth.web.login", args |-> <<>>]
    ELSE IF sel = Plus \o Localize("force_auth_web_login_authorize_dev_hub_text")
    THEN [command |-> "sfdx.force.auth.dev.hub", args |-> <<>>]
    ELSE IF sel = Plus \o Localize("force_org_create_default_scratch_org_text")
    THEN [command |-> "sfdx.force.org.create", args |-> <<>>]
    ELSE IF sel = Plus \o Localize("force_auth_access_token_authorize_org_text")
    THEN [command |-> "sfdx.force.auth.accessToken", args |-> <<>>]
    ELSE IF sel = Plus \o Localize("force_org_list_clean_text")
    THEN [command |-> "sfdx.force.org.list.clean", args |-> <<>>]
    ELSE [command |-> "sfdx.force.config.set",
          args |-> <<SplitFirst(sel, Dash)>>]

OrgInit ==
    /\ listing \in Listings
    /\ rootWorkspace \in BOOLEAN
    /\ devHubConfig \in {Undef, HubAlias, HubB}
    /\ today \in Days
    /\ op = "none"
    /\ ret = RetNull
    /\ shown = <<>>
    /\ selection = Undef
    /\ executed = <<>>

OrgIdle ==
    /\ listing = [ok |-> FALSE, orgs |-> <<>>]
    /\ rootWorkspace = FALSE
    /\ devHubConfig = Undef
    /\ today = 1
    /\ op = "none"
    /\ ret = RetNull
    /\ shown = <<>>
    /\ selection = Undef
    /\ executed = <<>>

orgRest == <<listing, rootWorkspace, devHubConfig, today, statusVars,
             diffVars, configVars, nameVars, commandVars>>

GetOrgAuthorizations ==
    /\ op = "none"
    /\ op' = "getOrgAuthorizations"
    /\ ret' = getOrgAuthorizations
    /\ shown' = <<>>
    /\ selection' = Undef
    /\ executed' = <<>>
    /\ UNCHANGED orgRest

\* filterAuthInfo called with the authorizations listed.
FilterAuthInfo ==
    /\ op = "none"
    /\ op' = "filterAuthInfo"
    /\ ret' = RetList(filterAuthInfo(listing.orgs))
    /\ shown' = <<>>
    /\ selection' = Undef
    /\ executed' = <<>>
    /\ UNCHANGED orgRest

UpdateOrgList ==
    /\ op = "none"
    /\ op' = "updateOrgList"
    /\ ret' = updateOrgList
    /\ shown' = <<>>
    /\ selection' = Undef
    /\ executed' = <<>>
    /\ UNCHANGED orgRest

\* setDefaultOrg(), the user picking the k-th entry shown (none when k = 0).
SetDefaultOrg(k) ==
    LET list == quickPickList
        sel == IF k = 0 THEN Undef ELSE list[k]
    IN  /\ op = "none"
        /\ k <= Len(list)
        /\ op' = "setDefaultOrg"
        /\ shown' = <<list>>
        /\ selection' = sel
        /\ IF ~Truthy(sel)
           THEN /\ ret' = RetCancel
                /\ executed' = <<>>
           ELSE /\ ret' = RetContinue
                /\ executed' = <<commandFor(sel)>>
        /\ UNCHANGED orgRest

OrgNext ==
    \/ GetOrgAuthorizations
    \/ FilterAuthInfo
    \/ UpdateOrgList
    \/ \E k \in 0..(Len(actionEntries) + MaxOrgs) : SetDefaultOrg(k)



(***************************************************************************)
(* handleDiffResponse.                                                     *)
(*                                                                         *)
(* An optional object is the empty set (absent) or a singleton.            *)
(***************************************************************************)
CommandNotFound == 127

NoExitCode == {}
ExitCodes == {NoExitCode, {0}, {1}, {CommandNotFound}}

\* new Error(message)
Error(message) == [name |-> "Error", message |-> message]

\* The errors DiffResultParser throws on output it cannot read, and
\* OrgAuthInfo.getDefaultUsernameOrAlias on a configuration it cannot read.
ParseError == [name |-> "DiffResultParserFail",
               message |-> <<"Error parsing diff result">>]
ResolveError == [name |-> "Error", message |-> <<"config unreadable">>]

DiffResults == [remote : {<<"r", "1">>, <<"r", "2">>},
                local : {<<"l", "1">>, <<"l", "2">>},
                fileName : {<<"f">>}]
SuccessResponses == {{}} \cup {{[result |-> r]} : r \in DiffResults}
ErrorResponses == {{}} \cup {{[message |-> <<"e", "1">>]},
                             {[message |-> <<"e", "2">>]}}

\* What DiffResultParser makes of the CLI output: it throws, or it gives a
\* success response, an error response, or neither.
StdOuts == {[throws |-> TRUE, success |-> {}, error |-> {}]} \cup
           [throws : {FALSE}, success : SuccessResponses,
            error : ErrorResponses]

\* getDefaultUsernameOrAlias(false): it throws, or gives a name or undefined.
DefaultOrgs == {[throws |-> TRUE, value |-> Undef]} \cup
               [throws : {FALSE}, value : {Undef, <<"a">>}]

\* What a run of handleDiffResponse does.
Effects(nParsed, views, lines, nShown, notes, sent) ==
    [parsed |-> nParsed, diffViews |-> views, channel |-> lines,
     channelShown |-> nShown, notifications |-> notes, telemetry |-> sent,
     escaped |-> FALSE]

\* A catch block that rethrows the error instead of reporting it.
catchBlockRethrowing(e, nParsed) ==
    [parsed |-> nParsed, diffViews |-> <<>>, channel |-> <<>>,
     channelShown |-> 0, notifications |-> <<>>, telemetry |-> <<>>,
     escaped |-> TRUE]

\* The catch block of handleDiffResponse.
catchBlock(e, nParsed) ==
    Effects(nParsed, <<>>, <<e.message>>, 1, <<e.message>>,
            <<[name |-> e.name, message |-> e.message]>>)

\* The success branch: the default org is resolved in a root workspace,
\* then the diff view is opened.
openDiff(diffParserSuccess) ==
    LET diffResult == diffParserSuccess.result
    IN  IF diffRootWorkspace /\ defaultOrg.throws
        THEN catchBlock(ResolveError, 1)
        ELSE LET defaultUsernameorAlias ==
                     IF diffRootWorkspace THEN defaultOrg.value ELSE Undef
             IN  Effects(1,
                         <<[command |-> "vscode.diff",
                            left |-> diffResult.remote,
                            right |-> diffResult.local,
                            title |-> <<"force_source_diff_title",
                                        defaultUsernameorAlias,
                                        diffResult.fileName,
                                        diffResult.fileName>>]>>,
                         <<>>, 0, <<>>, <<>>)

\* A handleDiffResponse that handles the error response after, not instead
\* of, the success response.
handleDiffResponseBoth(code, out) ==
    IF code = {CommandNotFound}
    THEN catchBlock(Error(Localize("force_source_diff_command_not_found")), 0)
    ELSE IF out.throws
    THEN catchBlock(ParseError, 1)
    ELSE LET first == IF out.success # {}
                      THEN openDiff(CHOOSE r \in out.success : TRUE)
                      ELSE Effects(1, <<>>, <<>>, 0, <<>>, <<>>)
         IN  IF out.error # {} /\ first.notifications = <<>>
             THEN LET diffParserError == CHOOSE r \in out.error : TRUE
                  IN  [first EXCEPT !.channel = <<diffParserError.message>>,
                                    !.channelShown = 1]
             ELSE first

handleDiffResponse(code, out) ==
    IF code = {CommandNotFound}
    THEN catchBlock(Error(Localize("force_source_diff_command_not_found")), 0)
    ELSE IF out.throws
    THEN catchBlock(ParseError, 1)
    ELSE IF out.success # {}
    THEN openDiff(CHOOSE r \in out.success : TRUE)
    ELSE IF out.error # {}
    THEN LET diffParserError == CHOOSE r \in out.error : TRUE
         IN  Effects(1, <<>>, <<diffParserError.message>>, 1, <<>>, <<>>)
    ELSE Effects(1, <<>>, <<>>, 0, <<>>, <<>>)

DiffInit ==
    /\ exitCode \in ExitCodes
    /\ stdOut \in StdOuts
    /\ diffRootWorkspace \in BOOLEAN
    /\ defaultOrg \in DefaultOrgs
    /\ diffPc = "idle"
    /\ parsed = 0
    /\ diffViews = <<>>
    /\ channel = <<>>
    /\ channelShown = 0
    /\ notifications = <<>>
    /\ telemetry = <<>>
    /\ escaped = FALSE

DiffIdle ==
    /\ exitCode = NoExitCode
    /\ stdOut = [throws |-> TRUE, success |-> {}, error |-> {}]
    /\ diffRootWorkspace = FALSE
    /\ defaultOrg = [throws |-> FALSE, value |-> Undef]
    /\ diffPc = "idle"
    /\ parsed = 0
    /\ diffViews = <<>>
    /\ channel = <<>>
    /\ channelShown = 0
    /\ notifications = <<>>
    /\ telemetry = <<>>
    /\ escaped = FALSE

HandleDiffResponse ==
    /\ diffPc = "idle"
    /\ diffPc' = "done"
    /\ LET did == handleDiffResponse(exitCode, stdOut)
       IN  /\ parsed' = did.parsed
           /\ diffViews' = did.diffViews
           /\ channel' = did.channel
           /\ channelShown' = did.channelShown
           /\ notifications' = did.notifications
           /\ telemetry' = did.telemetry
           /\ escaped' = did.escaped
    /\ UNCHANGED <<exitCode, stdOut, diffRootWorkspace, defaultOrg>>
    /\ UNCHANGED <<orgVars, statusVars, configVars, nameVars, commandVars>>


(***************************************************************************)
(* ConfigUtil.                                                             *)
(***************************************************************************)
Keys == {"defaultusername", "defaultdevhubusername"}

\* A config value: undefined, null, the empty string or a name.
ConfigValues == {Undef, Null, <<>>, <<"v">>}

\* The source argument: undefined, ConfigSource.Local or ConfigSource.Global.
Sources == {"undefined", "Local", "Global"}

\* An isNullOrUndefined that tests for a falsy value.
isFalsy(value) == value = Null \/ value = Undef \/ value = <<>>

isNullOrUndefined(value) == value = Null \/ value = Undef

isUndefined(value) == value = "undefined"

LocalError == <<"local config unreadable">>
GlobalError == <<"aggregator unavailable">>

\* What a ConfigUtil call gives: its value, the exceptions it sent to
\* telemetry and its reads of the two configs.
Got(value, sent, nLocal, nGlobal) ==
    [value |-> value, telemetry |-> sent, localReads |-> nLocal,
     globalReads |-> nGlobal]

\* The second block of getSfConfigValue: the ConfigAggregator.
sfGlobalBlock(key, source, nLocal) ==
    IF isUndefined(source) \/ source = "Global"
    THEN IF globalThrows
         THEN Got(Undef, <<<<"get_config_value_global", GlobalError>>>>,
                  nLocal, 1)
         ELSE IF ~isNullOrUndefined(globalConfig[key])
         THEN Got(globalConfig[key], <<>>, nLocal, 1)
         ELSE Got(Undef, <<>>, nLocal, 1)
    ELSE Got(Undef, <<>>, nLocal, 0)

getSfConfigValue(key, source) ==
    IF isUndefined(source) \/ source = "Local"
    THEN IF localThrows
         THEN Got(Undef, <<<<"get_config_value_local", LocalError>>>>, 1, 0)
         ELSE IF ~isNullOrUndefined(localConfig[key])
         THEN Got(localConfig[key], <<>>, 1, 0)
         ELSE sfGlobalBlock(key, source, 1)
    ELSE sfGlobalBlock(key, source, 0)

\* The second block of getConfigValue: the ConfigAggregator.
globalBlock(key, source, nLocal) ==
    IF isUndefined(source) \/ source = "Global"
    THEN IF globalThrows
         THEN Got(Undef, <<<<"get_config_value_global", GlobalError>>>>,
                  nLocal, 1)
         ELSE IF ~isNullOrUndefined(globalConfig[key])
         THEN Got(globalConfig[key], <<>>, nLocal, 1)
         ELSE Got(Undef, <<>>, nLocal, 1)
    ELSE Got(Undef, <<>>, nLocal, 0)

\* A getConfigValue that goes on to the aggregator when the local read throws.
getConfigValueGoingOn(key, source) ==
    IF isUndefined(source) \/ source = "Local"
    THEN IF localThrows
         THEN LET global == globalBlock(key, source, 1)
              IN  [global EXCEPT !.telemetry =
                       <<<<"get_config_value_local", LocalError>>>> \o @]
         ELSE IF ~isNullOrUndefined(localConfig[key])
         THEN Got(localConfig[key], <<>>, 1, 0)
         ELSE globalBlock(key, source, 1)
    ELSE globalBlock(key, source, 0)

getConfigValue(key, source) ==
    IF isUndefined(source) \/ source = "Local"
    THEN IF localThrows
         THEN Got(Undef, <<<<"get_config_value_local", LocalError>>>>, 1, 0)
         ELSE IF ~isNullOrUndefined(localConfig[key])
         THEN Got(localConfig[key], <<>>, 1, 0)
         ELSE globalBlock(key, source, 1)
    ELSE globalBlock(key, source, 0)

\* getConfigSource(key): the value is the ConfigSource found.
getConfigSource(key) ==
    LET local == getSfConfigValue(key, "Local")
    IN  IF ~isNullOrUndefined(local.value)
        THEN Got("Local", local.telemetry, local.localReads,
                 local.globalReads)
        ELSE LET global == getSfConfigValue(key, "Global")
                 sent == local.telemetry \o global.telemetry
                 nLocal == local.localReads + global.localReads
                 nGlobal == local.globalReads + global.globalReads
             IN  IF ~isNullOrUndefined(global.value)
                 THEN Got("Global", sent, nLocal, nGlobal)
                 ELSE Got("None", sent, nLocal, nGlobal)

NoCall == [name |-> "none", key |-> "", source |-> "undefined"]

ConfigInit ==
    /\ localConfig \in [Keys -> ConfigValues]
    /\ localThrows \in BOOLEAN
    /\ globalConfig \in [Keys -> ConfigValues]
    /\ globalThrows \in BOOLEAN
    /\ configCall = NoCall
    /\ configRet = Undef
    /\ configTelemetry = <<>>
    /\ localReads = 0
    /\ globalReads = 0

ConfigIdle ==
    /\ localConfig = [k \in Keys |-> Undef]
    /\ localThrows = FALSE
    /\ globalConfig = [k \in Keys |-> Undef]
    /\ globalThrows = FALSE
    /\ configCall = NoCall
    /\ configRet = Undef
    /\ configTelemetry = <<>>
    /\ localReads = 0
    /\ globalReads = 0

configRest == <<localConfig, localThrows, globalConfig, globalThrows, orgVars,
                statusVars, diffVars, nameVars, commandVars>>

Returned(name, key, source, got) ==
    /\ configCall' = [name |-> name, key |-> key, source |-> source]
    /\ configRet' = got.value
    /\ configTelemetry' = got.telemetry
    /\ localReads' = got.localReads
    /\ globalReads' = got.globalReads
    /\ UNCHANGED configRest

GetConfigSource(key) ==
    /\ configCall = NoCall
    /\ Returned("getConfigSource", key, "undefined", getConfigSource(key))

GetConfigValue(key, source) ==
    /\ configCall = NoCall
    /\ Returned("getConfigValue", key, source, getConfigValue(key, source))

GetSfConfigValue(key, source) ==
    /\ configCall = NoCall
    /\ Returned("getSfConfigValue", key, source, getSfConfigValue(key, source))


(***************************************************************************)
(* The function-name validator.                                            *)
(***************************************************************************)
NameMaxLength == 47

LowercaseLetters ==
    {"a", "b", "c", "d", "e", "f", "g", "h", "i", "j", "k", "l", "m",
     "n", "o", "p", "q", "r", "s", "t", "u", "v", "w", "x", "y", "z"}
Digits == {"0", "1", "2", "3", "4", "5", "6", "7", "8", "9"}

\* /^[a-z0-9]+$/.test(value)
functionNameRegex(value) ==
    /\ Len(value) >= 1
    /\ \A i \in 1..Len(value) : value[i] \in LowercaseLetters \cup Digits

\* /^[a-z]/.test(value)
functionNameStartRegex(value) ==
    /\ Len(value) >= 1
    /\ value[1] \in LowercaseLetters

TooLongMessage ==
    <<"Function names cannot contain more than 47 characters.">>
CharactersMessage ==
    <<"Name must contain only lowercase letters and numbers.">>
StartMessage == <<"Name must start with a letter.">>

\* A nameVerification that refuses a name of 47 characters.
nameVerificationOffByOne(value) ==
    IF Len(value) >= NameMaxLength
    THEN [threw |-> TRUE, value |-> TooLongMessage]
    ELSE IF ~functionNameRegex(value)
    THEN [threw |-> TRUE, value |-> CharactersMessage]
    ELSE IF ~functionNameStartRegex(value)
    THEN [threw |-> TRUE, value |-> StartMessage]
    ELSE [threw |-> FALSE, value |-> <<>>]

\* nameVerification(value): it throws an Error or returns ''.
nameVerification(value) ==
    IF Len(value) > NameMaxLength
    THEN [threw |-> TRUE, value |-> TooLongMessage]
    ELSE IF ~functionNameRegex(value)
    THEN [threw |-> TRUE, value |-> CharactersMessage]
    ELSE IF ~functionNameStartRegex(value)
    THEN [threw |-> TRUE, value |-> StartMessage]
    ELSE [threw |-> FALSE, value |-> <<>>]

\* validateInput(value): the message of the error caught, or null.
validateInput(value) ==
    LET verified == nameVerification(value)
    IN  IF verified.threw
        THEN [threw |-> FALSE, value |-> verified.value]
        ELSE [threw |-> FALSE, value |-> Null]

\* The names typed: a short head of any characters, then one character
\* repeated.
NameCharacters == {"a", "z", "0", "A", "-"}

RECURSIVE TextsOfLength(_)
TextsOfLength(n) ==
    IF n = 0 THEN {<<>>}
    ELSE {Append(t, c) : t \in TextsOfLength(n - 1), c \in NameCharacters}

RECURSIVE Repeat(_, _)
Repeat(c, n) == IF n = 0 THEN <<>> ELSE <<c>> \o Repeat(c, n - 1)

Names ==
    {head \o Repeat(c, n) :
        head \in UNION {TextsOfLength(k) : k \in 0..MaxHead},
        c \in {"a", "0", "-"},
        n \in 0..MaxPad}

NameInit ==
    /\ nameValue \in Names
    /\ namePc = "idle"
    /\ nameResult = [threw |-> FALSE, value |-> Undef]

NameIdle ==
    /\ nameValue = <<>>
    /\ namePc = "idle"
    /\ nameResult = [threw |-> FALSE, value |-> Undef]

ValidateInput ==
    /\ namePc = "idle"
    /\ namePc' = "done"
    /\ nameResult' = validateInput(nameValue)
    /\ UNCHANGED nameValue
    /\ UNCHANGED <<orgVars, statusVars, diffVars, configVars, commandVars>>

(***************************************************************************)
(* forceSourceDiff and superSourceDiff.                                    *)
(***************************************************************************)
\* String.prototype.includes(part), for a part that is not empty.
includes(text, part) == \E i \in 1..Len(text) : OccursAt(text, part, i)

LanguageIds == {"apex", "visualforce", "xml", "javascript",
                "forcesourcemanifest"}

FileNames ==
    {<<"A", ".", "c", "l", "s">>,
     <<"a", "u", "r", "a", "/", "c", ".", "j", "s">>,
     <<"l", "w", "c", "/", "c", ".", "j", "s">>,
     <<"l", "a", "u", "r", "a", ".", "t", "x", "t">>,
     <<"p", ".", "p", "e", "r", "m", "i", "s", "s", "i", "o", "n", "s", "e", "t", "-", "m", "e", "t", "a", ".", "x", "m", "l">>,
     <<"l", ".", "l", "a", "y", "o", "u", "t", "-", "m", "e", "t", "a", ".", "x", "m", "l">>,
     <<"p", "a", "c", "k", "a", "g", "e", ".", "x", "m", "l">>}

\* vscode.Uri.file(fileName)
Uri(fileName) == [scheme |-> "file", path |-> fileName]

\* The documents an editor can hold; its uri is that of its file.
Documents == [languageId : LanguageIds, fileName : FileNames]

\* vscode.window.activeTextEditor: absent ({}) or an editor on a document.
ActiveEditors == {{}} \cup {{d} : d \in Documents}

\* The uri argument: absent ({}) or the uri of a file picked in the explorer.
SourceUris == {{}, {Uri(<<"B", ".", "c", "l", "s">>)}}

UnsupportedType == Localize("force_source_diff_unsupported_type")

\* What a call does: the commandlets it runs and what it reports.
Did(ran, sent, notes, lines, nShown) ==
    [commandlets |-> ran, telemetry |-> sent, notifications |-> notes,
     channel |-> lines, channelShown |-> nShown]

\* The else branch of both functions: the unsupported-type error.
unsupportedType ==
    Did(<<>>,
        <<[name |-> "unsupported_type_on_diff", message |-> UnsupportedType]>>,
        <<UnsupportedType>>, <<UnsupportedType>>, 1)

\* A test of forceSourceDiff that lacks the lwc alternative.
diffSupportedWithoutLwc(document) ==
    \/ document.languageId = "apex"
    \/ document.languageId = "visualforce"
    \/ includes(document.fileName, <<"a", "u", "r", "a">>)
    \/ includes(document.fileName, <<"p", "e", "r", "m", "i", "s", "s", "i", "o", "n", "s", "e", "t", "-", "m", "e", "t", "a", ".", "x", "m", "l">>)
    \/ includes(document.fileName, <<"l", "a", "y", "o", "u", "t", "-", "m", "e", "t", "a", ".", "x", "m", "l">>)

\* The test forceSourceDiff makes of the active editor's document.
diffSupported(document) ==
    \/ document.languageId = "apex"
    \/ document.languageId = "visualforce"
    \/ includes(document.fileName, <<"a", "u", "r", "a">>)
    \/ includes(document.fileName, <<"l", "w", "c">>)
    \/ includes(document.fileName, <<"p", "e", "r", "m", "i", "s", "s", "i", "o", "n", "s", "e", "t", "-", "m", "e", "t", "a", ".", "x", "m", "l">>)
    \/ includes(document.fileName, <<"l", "a", "y", "o", "u", "t", "-", "m", "e", "t", "a", ".", "x", "m", "l">>)

\* The test superSourceDiff makes of the active editor's document.
superSupported(document) == document.languageId # "forcesourcemanifest"

\* forceSourceDiff(uri) with the active editor given.
forceSourceDiff(uri, editor) ==
    IF uri = {}
    THEN IF editor # {} /\ \A d \in editor : diffSupported(d)
         THEN Did(<<[executor |-> "ForceSourceDiffExecutor",
                     uri |-> {Uri(d.fileName) : d \in editor}]>>,
                  <<>>, <<>>, <<>>, 0)
         ELSE unsupportedType
    ELSE Did(<<[executor |-> "ForceSourceDiffExecutor", uri |-> uri]>>,
             <<>>, <<>>, <<>>, 0)

\* The rest of superSourceDiff once the path is known.
superWithPath(explorerPath, username) ==
    IF ~Truthy(username)
    THEN Did(<<>>, <<>>, <<<<"No default org">>>>, <<>>, 0)
    ELSE Did(<<[executor |-> "MetadataCacheExecutor", uri |-> explorerPath,
                username |-> username]>>,
             <<>>, <<>>, <<>>, 0)

\* superSourceDiff(explorerPath) with the active editor and
\* workspaceContext.username given.
superSourceDiff(explorerPath, editor, username) ==
    IF explorerPath = {}
    THEN IF editor # {} /\ \A d \in editor : superSupported(d)
         THEN superWithPath({Uri(d.fileName) : d \in editor}, username)
         ELSE unsupportedType
    ELSE superWithPath(explorerPath, username)

SourceInit ==
    /\ sourceUri \in SourceUris
    /\ activeEditor \in ActiveEditors
    /\ contextUsername \in {Undef, <<>>, <<"u", "1">>}
    /\ sourceCall = "none"
    /\ commandlets = <<>>

SourceIdle ==
    /\ sourceUri = {}
    /\ activeEditor = {}
    /\ contextUsername = Undef
    /\ sourceCall = "none"
    /\ commandlets = <<>>

sourceRest == <<sourceUri, activeEditor, contextUsername, exitCode, stdOut,
                diffRootWorkspace, defaultOrg, diffPc, parsed, diffViews,
                escaped, orgVars, statusVars, configVars, nameVars, execVars,
                functionVars>>

SourceDone(name, did) ==
    /\ sourceCall' = name
    /\ commandlets' = did.commandlets
    /\ telemetry' = did.telemetry
    /\ notifications' = did.notifications
    /\ channel' = did.channel
    /\ channelShown' = did.channelShown
    /\ UNCHANGED sourceRest

ForceSourceDiff ==
    /\ sourceCall = "none"
    /\ SourceDone("forceSourceDiff", forceSourceDiff(sourceUri, activeEditor))

SuperSourceDiff ==
    /\ sourceCall = "none"
    /\ SourceDone("superSourceDiff",
                  superSourceDiff(sourceUri, activeEditor, contextUsername))

SourceNext == ForceSourceDiff \/ SuperSourceDiff

(***************************************************************************)
(* FunctionInfoGatherer.gather and ForceFunctionCreateExecutor.run.        *)
(***************************************************************************)
LANGUAGE_JAVA == <<"java">>
LANGUAGE_JAVASCRIPT == <<"javascript">>
LANGUAGE_TYPESCRIPT == <<"typescript">>

\* The items of the quick pick.
OfferedLanguages == {LANGUAGE_JAVA, LANGUAGE_JAVASCRIPT, LANGUAGE_TYPESCRIPT}

\* The names SelectFileName can give.
FunctionNames == {<<"f">>, <<"g", "1">>, <<"f", "n">>}

\* The welcomeText generateFunction can resolve with.
WelcomeTexts == {Undef, <<>>, <<"W">>}

\* The err cp.exec hands its callback: null ({}) or an Error.
ExecErrors == {{}, {[message |-> <<"E">>]}}

\* metadata.suffix as the switch on language sets it.
suffix(language) ==
    CASE language = LANGUAGE_JAVASCRIPT -> <<".js">>
      [] language = LANGUAGE_TYPESCRIPT -> <<".ts">>
      [] language = LANGUAGE_JAVA -> <<".java">>

\* The telemetry property the switch adds.
telemetryLanguage(language) ==
    CASE language = LANGUAGE_JAVASCRIPT -> <<"node">>
      [] language = LANGUAGE_TYPESCRIPT -> <<"node">>
      [] language = LANGUAGE_JAVA -> <<"java">>

\* The path generateFunction resolves with.
functionPath(fileName) == <<"functions", "/">> \o fileName

\* metadata.pathStrategy.getPathToSource(functionPath, fileName, suffix)
getPathToSource(dir, fileName, sfx) ==
    [dir |-> dir, fileName |-> fileName, suffix |-> sfx]

\* An installation that runs npm whatever the language.
installNpmAlways(language) ==
    [command |-> <<"npm install">>,
     error |-> "force_function_install_npm_dependencies_error"]

\* The command cp.exec is given and the message key of its failure.
install(language) ==
    IF language = LANGUAGE_JAVA
    THEN [command |-> <<"mvn install">>,
          error |-> "force_function_install_mvn_dependencies_error"]
    ELSE [command |-> <<"npm install">>,
          error |-> "force_function_install_npm_dependencies_error"]

\* One thing run does: the call and what it is given.
Call(name, arg) == [call |-> name, arg |-> arg]

FunctionInit ==
    /\ functionInfo \in [fileName : FunctionNames, language : {Undef}]
    /\ welcomeText \in WelcomeTexts
    /\ functionPc = "idle"
    /\ functionLog = <<>>
    /\ functionResult = "none"
    /\ warnings = <<>>

FunctionIdle ==
    /\ functionInfo = [fileName |-> <<>>, language |-> Undef]
    /\ welcomeText = Undef
    /\ functionPc = "idle"
    /\ functionLog = <<>>
    /\ functionResult = "none"
    /\ warnings = <<>>

functionRest == <<orgVars, statusVars, diffVars, configVars, nameVars,
                  execVars, sourceVars>>

\* gather: the pick of one of the offered languages, or none (Undef).
Gather(language) ==
    /\ functionPc = "idle"
    /\ functionInfo' = [functionInfo EXCEPT !.language = language]
    /\ functionPc' = IF language = Undef THEN "cancelled" ELSE "gathered"
    /\ UNCHANGED <<welcomeText, functionLog, functionResult, warnings>>
    /\ UNCHANGED functionRest

\* run up to its first await: the switch and the call of generateFunction.
Run ==
    /\ functionPc = "gathered"
    /\ functionPc' = "generating"
    /\ functionLog' = functionLog \o
          <<Call("addProperty", telemetryLanguage(functionInfo.language)),
            Call("generateFunction", functionInfo)>>
    /\ UNCHANGED <<functionInfo, welcomeText, functionResult, warnings>>
    /\ UNCHANGED functionRest

\* generateFunction settles: run goes on to its second await, or rejects.
Generated(resolved) ==
    /\ functionPc = "generating"
    /\ IF resolved
       THEN /\ functionPc' = "opening"
            /\ functionLog' = functionLog \o
                  <<Call("appendLine",
                         <<"Created ">> \o functionInfo.language
                            \o <<" function ">> \o functionInfo.fileName
                            \o <<" in ">>
                            \o functionPath(functionInfo.fileName)
                            \o <<".">>)>>
                  \o (IF Truthy(welcomeText)
                      THEN <<Call("appendLine", welcomeText)>> ELSE <<>>)
                  \o <<Call("showChannelOutput", <<>>),
                       Call("openTextDocument",
                            getPathToSource(
                                functionPath(functionInfo.fileName),
                                functionInfo.fileName,
                                suffix(functionInfo.language)))>>
            /\ UNCHANGED functionResult
       ELSE /\ functionPc' = "rejected"
            /\ functionResult' = "rejected"
            /\ UNCHANGED functionLog
    /\ UNCHANGED <<functionInfo, welcomeText, warnings>>
    /\ UNCHANGED functionRest

\* openTextDocument settles: run shows the document, starts the
\* installation and returns true, or rejects.
Opened(resolved) ==
    /\ functionPc = "opening"
    /\ IF resolved
       THEN /\ functionPc' = "installing"
            /\ functionLog' = functionLog \o
                  <<Call("showTextDocument", <<>>),
                    Call("appendLine", <<"Installing dependencies...">>),
                    Call("exec", install(functionInfo.language).command)>>
            /\ functionResult' = "true"
       ELSE /\ functionPc' = "rejected"
            /\ functionResult' = "rejected"
            /\ UNCHANGED functionLog
    /\ UNCHANGED <<functionInfo, welcomeText, warnings>>
    /\ UNCHANGED functionRest

\* The callback of cp.exec.
InstallExit(err) ==
    /\ functionPc = "installing"
    /\ functionPc' = "installed"
    /\ functionLog' = Append(functionLog, Call("execCallback", err))
    /\ warnings' = IF err # {}
                   THEN Append(warnings,
                               Localize(install(functionInfo.language).error)
                                  \o (CHOOSE e \in err : TRUE).message)
                   ELSE warnings
    /\ UNCHANGED <<functionInfo, welcomeText, functionResult>>
    /\ UNCHANGED functionRest

FunctionNext ==
    \/ \E language \in OfferedLanguages \cup {Undef} : Gather(language)
    \/ Run
    \/ \E resolved \in BOOLEAN : Generated(resolved)
    \/ \E resolved \in BOOLEAN : Opened(resolved)
    \/ \E err \in ExecErrors : InstallExit(err)

(***************************************************************************)
(* ForceSourceDiffExecutor.execute: the CLI process, its stdout and exit.  *)
(***************************************************************************)
\* The chunks the CLI writes to stdout.
Chunks == {<<"{">>, <<"x", "}">>}

\* A stdoutSubject subscriber that keeps the last chunk only.
lastChunk(text, realData) == realData

\* stdOut += realData.toString()
accumulate(text, realData) == text \o realData

ExecIdle ==
    /\ execPc = "idle"
    /\ stdOutText = <<>>
    /\ delivered = <<>>
    /\ deliveredAtExit = 0
    /\ handled = <<>>
    /\ execLog = <<>>

\* What handleDiffResponse reads besides its arguments.
ExecInit ==
    /\ ExecIdle
    /\ exitCode = NoExitCode
    /\ stdOut = [throws |-> TRUE, success |-> {}, error |-> {}]
    /\ diffRootWorkspace \in BOOLEAN
    /\ defaultOrg \in DefaultOrgs
    /\ diffPc = "idle"
    /\ parsed = 0
    /\ diffViews = <<>>
    /\ channel = <<>>
    /\ channelShown = 0
    /\ notifications = <<>>
    /\ telemetry = <<>>
    /\ escaped = FALSE

execRest == <<orgVars, statusVars, configVars, nameVars, sourceVars,
              functionVars>>

\* execute(response): starts the CLI and subscribes to its stdout and exit.
Execute ==
    /\ execPc = "idle"
    /\ execPc' = "running"
    /\ stdOutText' = <<>>
    /\ UNCHANGED <<delivered, deliveredAtExit, handled, execLog>>
    /\ UNCHANGED <<diffVars, execRest>>

\* The stdoutSubject subscriber: a chunk arrives, also after the exit event
\* when the stream is still open.
StdoutData(realData) ==
    /\ execPc \in {"running", "exited"}
    /\ Len(delivered) < MaxChunks
    /\ stdOutText' = accumulate(stdOutText, realData)
    /\ delivered' = Append(delivered, realData)
    /\ UNCHANGED <<execPc, deliveredAtExit, handled, execLog>>
    /\ UNCHANGED <<diffVars, execRest>>

\* The processExitSubject subscriber: logs the metric, then handles the
\* output gathered so far, which DiffResultParser reads as out.
ProcessExit(code, out) ==
    /\ execPc = "running"
    /\ execPc' = "exited"
    /\ deliveredAtExit' = Len(delivered)
    /\ execLog' = execLog \o <<"logMetric", "handleDiffResponse">>
    /\ handled' = Append(handled, [exitCode |-> code, stdOut |-> stdOutText])
    /\ exitCode' = code
    /\ stdOut' = out
    /\ diffPc' = "done"
    /\ LET did == handleDiffResponse(code, out)
       IN  /\ parsed' = did.parsed
           /\ diffViews' = did.diffViews
           /\ channel' = did.channel
           /\ channelShown' = did.channelShown
           /\ notifications' = did.notifications
           /\ telemetry' = did.telemetry
           /\ escaped' = did.escaped
    /\ UNCHANGED <<stdOutText, delivered, diffRootWorkspace, defaultOrg>>
    /\ UNCHANGED execRest

ExecNext ==
    \/ Execute
    \/ \E realData \in Chunks : StdoutData(realData)
    \/ \E code \in ExitCodes, out \in StdOuts : ProcessExit(code, out)

CommandIdle == ExecIdle /\ SourceIdle /\ FunctionIdle

(***************************************************************************)
(* Specifications: one per component, the others idle.                     *)
(***************************************************************************)
StatusSpecInit == StatusInit /\ OrgIdle /\ DiffIdle /\ ConfigIdle /\ NameIdle /\ CommandIdle
SpecStatus == StatusSpecInit /\ [][StatusNext]_vars

OrgSpecInit == OrgInit /\ StatusIdle /\ DiffIdle /\ ConfigIdle /\ NameIdle /\ CommandIdle
SpecOrg == OrgSpecInit /\ [][OrgNext]_vars

DiffSpecInit == DiffInit /\ OrgIdle /\ StatusIdle /\ ConfigIdle /\ NameIdle /\ CommandIdle
DiffNext == HandleDiffResponse
SpecDiff == DiffSpecInit /\ [][DiffNext]_vars

ConfigSpecInit == ConfigInit /\ OrgIdle /\ StatusIdle /\ DiffIdle /\ NameIdle /\ CommandIdle
ConfigNext ==
    \/ \E key \in Keys : GetConfigSource(key)
    \/ \E key \in Keys, source \in Sources : GetConfigValue(key, source)
    \/ \E key \in Keys, source \in Sources : GetSfConfigValue(key, source)
SpecConfig == ConfigSpecInit /\ [][ConfigNext]_vars

NameSpecInit == NameInit /\ OrgIdle /\ StatusIdle /\ DiffIdle /\ ConfigIdle /\ CommandIdle
NameNext == ValidateInput
SpecName == NameSpecInit /\ [][NameNext]_vars

ExecSpecInit ==
    ExecInit /\ OrgIdle /\ StatusIdle /\ ConfigIdle /\ NameIdle /\ SourceIdle
        /\ FunctionIdle
SpecExec == ExecSpecInit /\ [][ExecNext]_vars

SourceSpecInit ==
    SourceInit /\ OrgIdle /\ StatusIdle /\ DiffIdle /\ ConfigIdle /\ NameIdle
        /\ ExecIdle /\ FunctionIdle
SpecSource == SourceSpecInit /\ [][SourceNext]_vars

FunctionSpecInit ==
    FunctionInit /\ OrgIdle /\ StatusIdle /\ DiffIdle /\ ConfigIdle /\ NameIdle
        /\ ExecIdle /\ SourceIdle
SpecFunction == FunctionSpecInit /\ [][FunctionNext]_vars

Init == OrgSpecInit
Next == OrgNext
Spec == SpecOrg


(***************************************************************************)
(* Claims about the org picker (SpecOrg) and the status bar (SpecStatus).  *)
(***************************************************************************)
FixedCommands ==
    << "sfdx.force.auth.web.login", "sfdx.force.auth.dev.hub",
       "sfdx.force.org.create", "sfdx.force.auth.accessToken",
       "sfdx.force.org.list.clean" >>

FixedEntries ==
    << Plus \o <<"force_auth_web_login_authorize_org_text">>,
       Plus \o <<"force_auth_web_login_authorize_dev_hub_text">>,
       Plus \o <<"force_org_create_default_scratch_org_text">>,
       Plus \o <<"force_auth_access_token_authorize_org_text">>,
       Plus \o <<"force_org_list_clean_text">> >>

\* The command the claim pairs with a selected entry.
PairedCommand(sel) ==
    IF \E j \in 1..5 : FixedEntries[j] = sel
    THEN FixedCommands[CHOOSE j \in 1..5 : FixedEntries[j] = sel]
    ELSE "sfdx.force.config.set"

\* C1: setDefaultOrg returns CANCEL and executes no command exactly when the
\* quick-pick yields no selection; for every selection it returns CONTINUE
\* and executes exactly one command, the fixed command paired with the
\* selected action entry or, for any other entry, sfdx.force.config.set.
C1_SetDefaultOrgCommand ==
    op = "setDefaultOrg" =>
        /\ (ret.type = "CANCEL") <=> (selection = Undef)
        /\ ret.type = "CANCEL" => executed = <<>>
        /\ selection # Undef =>
              /\ ret.type = "CONTINUE"
              /\ Len(executed) = 1
              /\ executed[1].command = PairedCommand(selection)

\* C1 witness: an org entry was selected and sfdx.force.config.set executed.
C1_Witness ==
    /\ op = "setDefaultOrg"
    /\ selection # Undef
    /\ \A j \in 1..5 : FixedEntries[j] # selection
    /\ ret.type = "CONTINUE"
    /\ Len(executed) = 1
    /\ executed[1].command = "sfdx.force.config.set"

\* Whether the selection is one of the org entries shown.
OrgEntrySelected ==
    /\ op = "setDefaultOrg"
    /\ selection # Undef
    /\ \E k \in 6..Len(shown[1]) : shown[1][k] = selection

\* The identifiers of an org the claim allows: its aliases when it has any,
\* its username otherwise.
Identifiers(org) ==
    IF Len(org.aliases) > 0
    THEN {org.aliases[j] : j \in 1..Len(org.aliases)}
    ELSE {org.username}

\* C3: selecting an org entry that filterAuthInfo produced executes
\* sfdx.force.config.set with an identifier of the org of that entry: one of
\* its aliases when it has aliases, its username otherwise.
C3_RoundTrip ==
    OrgEntrySelected =>
        /\ Len(executed) = 1
        /\ executed[1].command = "sfdx.force.config.set"
        /\ \E i \in 1..Len(listing.orgs) :
              /\ authListItem(listing.orgs[i]) = selection
              /\ executed[1].args[1][1] \in Identifiers(listing.orgs[i])


\* Whether a text is present and not empty.
NonEmpty(text) == text # Undef /\ text # Null /\ Len(text) > 0

\* The org most recently reported to the OrgList.
LastReported == reported[Len(reported)]

\* C2: once the OrgList is constructed, and after any org-change events, the
\* status bar text is '$(plug) ' and the alias of the most recently reported
\* org when that alias is non-empty, else '$(plug) ' and its username when
\* that is non-empty, else the localized missing-default-org message.
C2_StatusBarText ==
    constructed =>
        statusBarText =
            IF NonEmpty(LastReported.alias)
            THEN <<"$", "(", "p", "l", "u", "g", ")", " ">> \o LastReported.alias
            ELSE IF NonEmpty(LastReported.username)
            THEN <<"$", "(", "p", "l", "u", "g", ")", " ">>
                     \o LastReported.username
            ELSE <<"missing_default_org">>

\* C2 witness: after two org-change events, the last one without an alias,
\* the status bar shows the username of the last one.
C2_Witness ==
    /\ constructed
    /\ Len(reported) = 3
    /\ reported[2].alias = <<"a">>
    /\ LastReported.alias = <<>>
    /\ LastReported.username = <<"u", "2">>
    /\ statusBarText = Plug \o <<"u", "2">>

\* Whether the claim keeps an org, given the username the default dev hub
\* resolves to (undefined without a root workspace or a default dev hub).
Kept(org, hubUsername) ==
    /\ org.scratchAdminUsername = Undef
    /\ org.devHubUsername = Undef \/ org.devHubUsername = hubUsername

ResolvedDevHub ==
    IF rootWorkspace /\ devHubConfig # Undef
    THEN (IF devHubConfig = HubAlias THEN HubA ELSE devHubConfig)
    ELSE Undef

KeptIndexes ==
    {i \in 1..Len(listing.orgs) : Kept(listing.orgs[i], ResolvedDevHub)}

\* C9: filterAuthInfo returns, in input order and one entry per kept org,
\* the orgs without a scratchAdminUsername whose devHubUsername is absent or
\* is the username the default dev hub resolves to; without a root workspace
\* or without a default dev hub every org with a devHubUsername is left out.
C9_FilterAuthInfo ==
    op = "filterAuthInfo" =>
        /\ Len(ret.list) = Cardinality(KeptIndexes)
        /\ \A i \in KeptIndexes :
              ret.list[Cardinality({j \in KeptIndexes : j <= i})] =
                  authListItem(listing.orgs[i])
        /\ (~rootWorkspace \/ devHubConfig = Undef) =>
              Len(ret.list) =
                  Cardinality({i \in 1..Len(listing.orgs) :
                      /\ listing.orgs[i].devHubUsername = Undef
                      /\ listing.orgs[i].scratchAdminUsername = Undef})

\* C9 witness: of two scratch orgs the first, of another dev hub, is left
\* out and the second, of the default dev hub given by alias, is kept.
C9_Witness ==
    /\ op = "filterAuthInfo"
    /\ rootWorkspace
    /\ devHubConfig = HubAlias
    /\ Len(listing.orgs) = 2
    /\ listing.orgs[1].devHubUsername = HubB
    /\ listing.orgs[2].devHubUsername = HubA
    /\ listing.orgs[2].scratchAdminUsername = Undef
    /\ ret.list = <<authListItem(listing.orgs[2])>>

\* Whether the listing of the authorizations fails or is empty.
NoAuthorizations == ~listing.ok \/ Len(listing.orgs) = 0

\* C10: when listing the authorizations fails or yields an empty list,
\* getOrgAuthorizations and updateOrgList return null and setDefaultOrg shows
\* exactly the five fixed entries in their order; in every case the list
\* shown is the five fixed entries followed by the filtered org entries.
C10_NullAndFixedEntries ==
    /\ NoAuthorizations =>
          /\ op \in {"getOrgAuthorizations", "updateOrgList"} =>
                ret.type = "null"
          /\ op = "setDefaultOrg" => shown = <<FixedEntries>>
    /\ op = "setDefaultOrg" =>
          /\ Len(shown) = 1
          /\ Len(shown[1]) >= 5
          /\ SubSeq(shown[1], 1, 5) = FixedEntries
          /\ \A i \in KeptIndexes :
                shown[1][5 + Cardinality({j \in KeptIndexes : j <= i})] =
                    authListItem(listing.orgs[i])
          /\ Len(shown[1]) = 5 + Cardinality(KeptIndexes)

\* C10 witness: the listing failed and setDefaultOrg showed the five fixed
\* entries.
C10_Witness ==
    /\ ~listing.ok
    /\ op = "setDefaultOrg"
    /\ shown = <<FixedEntries>>
    /\ ret.type = "CONTINUE"


(***************************************************************************)
(* Claims about handleDiffResponse (SpecDiff).                             *)
(***************************************************************************)
NotFoundExit == exitCode = {127}

\* Parsing the CLI output threw.
ParseThrew == ~NotFoundExit /\ stdOut.throws

HasSuccess == ~NotFoundExit /\ ~stdOut.throws /\ stdOut.success # {}
HasErrorOnly ==
    ~NotFoundExit /\ ~stdOut.throws /\ stdOut.success = {} /\ stdOut.error # {}
HasNeither ==
    ~NotFoundExit /\ ~stdOut.throws /\ stdOut.success = {} /\ stdOut.error = {}

\* Resolving the default org threw: it is resolved for a success response in
\* a root workspace.
ResolveThrew == HasSuccess /\ diffRootWorkspace /\ defaultOrg.throws

\* The message was shown as an error notification, appended to the output
\* channel, which was then shown, and sent to telemetry.
Reported(message) ==
    /\ notifications = <<message>>
    /\ channel = <<message>>
    /\ channelShown = 1
    /\ Len(telemetry) = 1
    /\ telemetry[1].message = message

\* C4: handleDiffResponse lets no error escape: on exit code 127, or when
\* parsing the output or resolving the default org throws, no diff view is
\* opened and the error message is shown as a notification, appended to the
\* output channel, which is shown, and sent to telemetry; on exit code 127
\* the message is the command-not-found text and the output is not parsed.
C4_ErrorsReported ==
    diffPc = "done" =>
        /\ ~escaped
        /\ (NotFoundExit \/ ParseThrew \/ ResolveThrew) =>
              /\ diffViews = <<>>
              /\ Len(notifications) = 1
              /\ Reported(notifications[1])
        /\ NotFoundExit =>
              /\ Reported(<<"force_source_diff_command_not_found">>)
              /\ parsed = 0
        /\ ParseThrew => Reported(ParseError.message)
        /\ ResolveThrew => Reported(ResolveError.message)

\* C4 witness: resolving the default org threw and the error was reported.
C4_Witness ==
    /\ diffPc = "done"
    /\ ResolveThrew
    /\ diffViews = <<>>
    /\ Reported(ResolveError.message)

\* Exactly one diff view was opened, the remote file left, the local right.
OneDiffView(result) ==
    /\ Len(diffViews) = 1
    /\ diffViews[1].command = "vscode.diff"
    /\ diffViews[1].left = result.remote
    /\ diffViews[1].right = result.local

\* C5 as stated: for an exit code other than 127, a success response opens
\* exactly one diff view (remote left, local right) and writes nothing to
\* the output channel; an error response without a success response appends
\* its message to the channel, shows it and opens no diff view; with neither
\* nothing is done.
C5_Original ==
    diffPc = "done" =>
        /\ HasSuccess =>
              /\ \A r \in stdOut.success : OneDiffView(r.result)
              /\ channel = <<>>
        /\ HasErrorOnly =>
              /\ \A r \in stdOut.error : channel = <<r.message>>
              /\ channelShown = 1
              /\ diffViews = <<>>
        /\ HasNeither => diffViews = <<>> /\ channel = <<>> /\ channelShown = 0

\* C5 amended: as C5, the success case holding when resolving the default
\* org does not throw; when it throws no diff view is opened. In no case is
\* a diff view opened and the output channel written.
C5_DiffOrChannel ==
    diffPc = "done" =>
        /\ (HasSuccess /\ ~ResolveThrew) =>
              /\ \A r \in stdOut.success : OneDiffView(r.result)
              /\ channel = <<>>
              /\ channelShown = 0
              /\ notifications = <<>>
        /\ ResolveThrew => diffViews = <<>>
        /\ HasErrorOnly =>
              /\ \A r \in stdOut.error : channel = <<r.message>>
              /\ channelShown = 1
              /\ diffViews = <<>>
              /\ notifications = <<>>
        /\ HasNeither =>
              /\ diffViews = <<>>
              /\ channel = <<>>
              /\ channelShown = 0
              /\ notifications = <<>>
        /\ ~(diffViews # <<>> /\ channel # <<>>)

\* C5 witness: a success response together with an error response opened the
\* diff view and left the output channel alone.
C5_Witness ==
    /\ diffPc = "done"
    /\ HasSuccess
    /\ stdOut.error # {}
    /\ diffRootWorkspace
    /\ Len(diffViews) = 1
    /\ diffViews[1].left = <<"r", "1">>
    /\ diffViews[1].right = <<"l", "2">>
    /\ channel = <<>>


(***************************************************************************)
(* Claims about ConfigUtil (SpecConfig).                                   *)
(***************************************************************************)
\* The local config file can be read and holds a value for the key.
LocalHolds(key) ==
    ~localThrows /\ localConfig[key] # Null /\ localConfig[key] # Undef

\* The configuration aggregator can be created and holds a value for the key.
GlobalHolds(key) ==
    ~globalThrows /\ globalConfig[key] # Null /\ globalConfig[key] # Undef

\* C6: getConfigSource(key) returns Local exactly when the local config
\* holds a non-null, non-undefined value for the key, otherwise Global
\* exactly when the aggregator holds one, otherwise None; a failure reading
\* the local config counts as no local value and the global lookup is still
\* made; a failure of both lookups gives None.
C6_ConfigSource ==
    configCall.name = "getConfigSource" =>
        /\ configRet = IF LocalHolds(configCall.key) THEN "Local"
                       ELSE IF GlobalHolds(configCall.key) THEN "Global"
                       ELSE "None"
        /\ localThrows => globalReads = 1
        /\ (localThrows /\ globalThrows) => configRet = "None"

\* C6 witness: the local read failed and the source found is Global.
C6_Witness ==
    /\ configCall.name = "getConfigSource"
    /\ localThrows
    /\ globalReads = 1
    /\ configRet = "Global"

\* C7: getConfigValue(key) without a source returns the local value when it
\* is non-null and falls back to the aggregator only when the local read
\* succeeded and found no value; when the local read throws it reports the
\* exception to telemetry and returns undefined without consulting the
\* aggregator. With source Local the aggregator is never consulted, with
\* source Global the local file is never read.
C7_ConfigValue ==
    configCall.name = "getConfigValue" =>
        LET key == configCall.key
        IN  /\ configCall.source = "undefined" =>
                  /\ LocalHolds(key) =>
                        configRet = localConfig[key] /\ globalReads = 0
                  /\ (~localThrows /\ ~LocalHolds(key)) =>
                        /\ globalReads = 1
                        /\ configRet = IF GlobalHolds(key)
                                       THEN globalConfig[key] ELSE Undef
                  /\ localThrows =>
                        /\ configRet = Undef
                        /\ globalReads = 0
                        /\ Len(configTelemetry) = 1
                        /\ configTelemetry[1][1] = "get_config_value_local"
            /\ configCall.source = "Local" => globalReads = 0
            /\ configCall.source = "Global" => localReads = 0

\* C7 witness: the local read threw, the aggregator holds a value for the
\* key, and undefined was returned without consulting the aggregator.
C7_Witness ==
    /\ configCall.name = "getConfigValue"
    /\ configCall.source = "undefined"
    /\ localThrows
    /\ GlobalHolds(configCall.key)
    /\ configRet = Undef
    /\ globalReads = 0
    /\ Len(configTelemetry) = 1

(***************************************************************************)
(* Claims about the function-name validator (SpecName).                    *)
(***************************************************************************)
OnlyLowercaseAndDigits(name) ==
    \A i \in 1..Len(name) : name[i] \in LowercaseLetters \cup Digits

Acceptable(name) ==
    /\ Len(name) >= 1
    /\ Len(name) <= 47
    /\ OnlyLowercaseAndDigits(name)
    /\ name[1] \in LowercaseLetters

\* C8: the validator returns null exactly for a name of 1 to 47 characters,
\* all lowercase letters or digits, starting with a letter; for every other
\* name it returns, without throwing, the message of the first failed check:
\* more than 47 characters, then characters other than lowercase letters and
\* numbers (the empty name included), then not starting with a letter.
C8_NameValidator ==
    namePc = "done" =>
        /\ ~nameResult.threw
        /\ (nameResult.value = Null) <=> Acceptable(nameValue)
        /\ ~Acceptable(nameValue) =>
              nameResult.value =
                  IF Len(nameValue) > 47
                  THEN <<"Function names cannot contain more than 47 characters.">>
                  ELSE IF Len(nameValue) = 0 \/ ~OnlyLowercaseAndDigits(nameValue)
                  THEN <<"Name must contain only lowercase letters and numbers.">>
                  ELSE <<"Name must start with a letter.">>

\* C8 witness: a name of exactly 47 characters was accepted.
C8_Witness ==
    /\ namePc = "done"
    /\ Len(nameValue) = 47
    /\ nameResult.value = Null


(***************************************************************************)
(* Claims about ForceSourceDiffExecutor.execute (SpecExec).                *)
(***************************************************************************)
\* The texts of a sequence of chunks, one after the other.
RECURSIVE Concatenation(_)
Concatenation(chunks) ==
    IF chunks = <<>> THEN <<>>
    ELSE Head(chunks) \o Concatenation(Tail(chunks))

\* C11: handleDiffResponse is invoked only in response to the exit event of
\* the CLI process and once per exit event; the output it receives is the
\* concatenation, in arrival order, of the stdout chunks delivered before
\* that event; the result is never handled before the process has exited,
\* and the execution metric is logged before the result is handled.
C11_HandledOnExit ==
    /\ Len(handled) = IF execPc = "exited" THEN 1 ELSE 0
    /\ diffPc = "done" => execPc = "exited"
    /\ execPc = "exited" =>
          /\ handled[1].stdOut =
                 Concatenation(SubSeq(delivered, 1, deliveredAtExit))
          /\ handled[1].exitCode = exitCode
          /\ diffPc = "done"
          /\ execLog = <<"logMetric", "handleDiffResponse">>
    /\ execPc # "exited" => execLog = <<>>

\* C11 witness: two different chunks arrived before the exit event and one
\* after it; the two were handled, in their order.
C11_Witness ==
    /\ execPc = "exited"
    /\ deliveredAtExit = 2
    /\ Len(delivered) = 3
    /\ delivered[1] # delivered[2]
    /\ Len(handled) = 1
    /\ handled[1].stdOut = delivered[1] \o delivered[2]

(***************************************************************************)
(* forceSourceDiff and superSourceDiff: the target of the commandlet.      *)
(***************************************************************************)
\* The file name of the active editor's document contains the part.
EditorFileHas(part) ==
    \E d \in activeEditor : \E i \in 1..(Len(d.fileName) - Len(part) + 1) :
        SubSeq(d.fileName, i, i + Len(part) - 1) = part

EditorLanguageIn(ids) == \E d \in activeEditor : d.languageId \in ids

\* The kinds of document each function takes from the active editor.
SupportedKind ==
    IF sourceCall = "forceSourceDiff"
    THEN \/ EditorLanguageIn({"apex", "visualforce"})
         \/ EditorFileHas(<<"a", "u", "r", "a">>)
         \/ EditorFileHas(<<"l", "w", "c">>)
         \/ EditorFileHas(<<"p", "e", "r", "m", "i", "s", "s", "i", "o", "n", "s", "e", "t", "-", "m", "e", "t", "a", ".", "x", "m", "l">>)
         \/ EditorFileHas(<<"l", "a", "y", "o", "u", "t", "-", "m", "e", "t", "a", ".", "x", "m", "l">>)
    ELSE EditorLanguageIn(LanguageIds \ {"forcesourcemanifest"})

\* The uri the commandlet is to work on: the argument, else the editor's.
TargetUri ==
    IF sourceUri # {} THEN sourceUri
    ELSE {[scheme |-> "file", path |-> d.fileName] : d \in activeEditor}

UnsupportedReported ==
    /\ commandlets = <<>>
    /\ Len(telemetry) = 1
    /\ telemetry[1].name = "unsupported_type_on_diff"
    /\ telemetry[1].message = UnsupportedType
    /\ notifications = <<UnsupportedType>>
    /\ channel = <<UnsupportedType>>
    /\ channelShown = 1

NothingReported ==
    /\ telemetry = <<>>
    /\ channel = <<>>
    /\ channelShown = 0

NoUsername == contextUsername \in {Undef, <<>>}

\* C12: forceSourceDiff and superSourceDiff never run their commandlet
\* without a target uri.  Called without a uri they take the active editor's
\* document only if it is of a supported kind, and otherwise report the
\* unsupported-type error to telemetry, notification and output channel and
\* run nothing.  superSourceDiff runs no commandlet when there is no default
\* org username and shows 'No default org' instead, and the unsupported-type
\* check comes first: with neither a target nor a username the report is
\* the unsupported-type one.
C12_TargetUri ==
    sourceCall # "none" =>
        /\ \A i \in 1..Len(commandlets) :
              commandlets[i].uri # {} /\ commandlets[i].uri = TargetUri
        /\ IF sourceUri = {} /\ ~SupportedKind
           THEN UnsupportedReported
           ELSE IF sourceCall = "superSourceDiff" /\ NoUsername
           THEN /\ commandlets = <<>>
                /\ notifications = << <<"No default org">> >>
                /\ NothingReported
           ELSE /\ Len(commandlets) = 1
                /\ notifications = <<>>
                /\ NothingReported

\* superSourceDiff was called with no uri, an editor on a manifest and no
\* default org, and reported the unsupported type.
C12_Witness ==
    /\ sourceCall = "superSourceDiff"
    /\ sourceUri = {}
    /\ EditorLanguageIn({"forcesourcemanifest"})
    /\ NoUsername
    /\ UnsupportedReported

(***************************************************************************)
(* ForceFunctionCreateExecutor.run: generate, open, then install.          *)
(***************************************************************************)
\* Where in the log run made the call.
CallsOf(name) == {i \in 1..Len(functionLog) : functionLog[i].call = name}

\* The suffix and the installation each language is to have.
ExpectedSuffix ==
    IF functionInfo.language = <<"java">> THEN <<".java">>
    ELSE IF functionInfo.language = <<"javascript">> THEN <<".js">>
    ELSE <<".ts">>

ExpectedCommand ==
    IF functionInfo.language = <<"java">> THEN <<"mvn install">>
    ELSE <<"npm install">>

InstallStarted == CallsOf("exec") # {}

InstallFailed ==
    \E i \in CallsOf("execCallback") : functionLog[i].arg # {}

\* C13: for each of the three offered languages run generates the function
\* first, then opens the generated source file (suffix .java for java, .js
\* for javascript, .ts for typescript) and only then starts the
\* installation of the dependencies ('mvn install' for java, 'npm install'
\* for the other two); it has returned true while the installation is
\* still running, and a failed installation shows one warning and leaves
\* the result of run as it was.
C13_GenerateOpenInstall ==
    /\ functionInfo.language \in
          {Undef, <<"java">>, <<"javascript">>, <<"typescript">>}
    /\ InstallStarted <=> functionPc \in {"installing", "installed"}
    /\ InstallStarted =>
          /\ Cardinality(CallsOf("generateFunction")) = 1
          /\ Cardinality(CallsOf("openTextDocument")) = 1
          /\ Cardinality(CallsOf("exec")) = 1
          /\ \A g \in CallsOf("generateFunction"),
                o \in CallsOf("openTextDocument"),
                e \in CallsOf("exec") :
                /\ g < o /\ o < e
                /\ functionLog[g].arg = functionInfo
                /\ functionLog[o].arg.suffix = ExpectedSuffix
                /\ functionLog[o].arg.fileName = functionInfo.fileName
                /\ functionLog[e].arg = ExpectedCommand
          /\ functionResult = "true"
    /\ functionResult = "true" => InstallStarted
    /\ \A o \in CallsOf("openTextDocument") :
          \E g \in CallsOf("generateFunction") : g < o
    /\ Len(warnings) = IF InstallFailed THEN 1 ELSE 0

\* run has returned true for a typescript function while npm install is
\* still running.
C13_Witness ==
    /\ functionInfo.language = <<"typescript">>
    /\ functionPc = "installing"
    /\ functionResult = "true"
    /\ \E o \in CallsOf("openTextDocument") :
          functionLog[o].arg.suffix = <<".ts">>
    /\ \E e \in CallsOf("exec") : functionLog[e].arg = <<"npm install">>

=============================================================================
